---- MODULE Spec2Model ----
(***************************************************************************)
(* A model of pyaml_processor (src/pyaml_processor/__init__.py): the line  *)
(* classifier, the block capturer, the include resolver, the token         *)
(* processor and the optional validation pass of one run of pyaml_string / *)
(* pyaml_file (Spec); of the command line in __main__.py around such a run *)
(* (SpecMain); and of one run of yaml_macros_string in                     *)
(* src/yaml_macros/macros.py (SpecMacros).                                 *)
(*                                                                         *)
(* Text is a sequence of lexemes.  A lexeme is one character of layout     *)
(* (SP, NL, BEL, "#", "-"), one two-character marker, or one word.  The    *)
(* regular expressions of the class are evaluated on these sequences.      *)
(***************************************************************************)
EXTENDS Integers, Sequences, FiniteSets

\* ------------------------------------------------------------------------
\* Lexemes
\* ------------------------------------------------------------------------
SP  == " "
NL  == "NL"
BEL == "BEL"
XO  == "@+"
XC  == "+@"
EO  == "@%"
EC  == "%@"
II  == "@@"
INC == "include"

Empty == << >>

IsSpace(c) == c \in {SP, NL}

RECURSIVE LStrip(_)
LStrip(s) == IF s # Empty /\ IsSpace(Head(s)) THEN LStrip(Tail(s)) ELSE s

RECURSIVE RStrip(_)
RStrip(s) ==
  IF s # Empty /\ IsSpace(s[Len(s)]) THEN RStrip(SubSeq(s, 1, Len(s) - 1)) ELSE s

AllSpace(s) == \A i \in 1..Len(s) : IsSpace(s[i])

NoNL(s) == \A i \in 1..Len(s) : s[i] # NL

\* The part of a line that "." can match from its start: everything before NL.
RECURSIVE Dot(_)
Dot(s) == IF s = Empty \/ Head(s) = NL THEN Empty ELSE <<Head(s)>> \o Dot(Tail(s))

Spaces(n) == [i \in 1..n |-> SP]

\* The largest and the smallest element of a set of positions, 0 if none.
Max0(S) == IF S = {} THEN 0 ELSE CHOOSE m \in S : \A k \in S : k <= m
Min0(S) == IF S = {} THEN 0 ELSE CHOOSE m \in S : \A k \in S : m <= k

NoMatch == [ok |-> FALSE, g1 |-> Empty, g2 |-> Empty, g3 |-> Empty]
Match(a, b, c) == [ok |-> TRUE, g1 |-> a, g2 |-> b, g3 |-> c]

\* ------------------------------------------------------------------------
\* The regular expressions of class Pyaml, applied with re.match
\* ------------------------------------------------------------------------

\* \s*#
StartsWith(t, c) == t # Empty /\ Head(t) = c
_re_comment(line) == StartsWith(LStrip(line), "#")

\* (.*)@@\s?include\s+(\S+?)@@\s*$
\* r is the line without the trailing \s*, a the first lexeme of the filename,
\* b the first lexeme of \s+, i the include marker.
IncludeMarker(r, a, i) ==
  IF i = 0 \/ ~NoNL(SubSeq(r, 1, i - 1)) THEN NoMatch
  ELSE Match(SubSeq(r, 1, i - 1), SubSeq(r, a, Len(r) - 1), Empty)

IncludeGap(r, a, b) ==
  IF b < 2 \/ r[b - 1] # INC THEN NoMatch
  ELSE IncludeMarker(r, a,
         IF b >= 3 /\ r[b - 2] = II THEN b - 2
         ELSE IF b >= 4 /\ IsSpace(r[b - 2]) /\ r[b - 3] = II THEN b - 3
         ELSE 0)

IncludeName(r, a) ==
  IF a = 0 THEN NoMatch
  ELSE IncludeGap(r, a,
         Min0({b \in 1..(a - 1) : \A k \in b..(a - 1) : IsSpace(r[k])}))

\* IncludeClosed with the close marker optional: (@@)?\s*$
IncludeClosed_optional(r) ==
  IF r # Empty /\ r[Len(r)] # II
  THEN IncludeName(r \o <<II>>,
         Min0({a \in 1..Len(r) : \A k \in a..Len(r) : ~IsSpace(r[k])}))
  ELSE IF Len(r) < 2 THEN NoMatch
  ELSE IncludeName(r,
         Min0({a \in 1..(Len(r) - 1) : \A k \in a..(Len(r) - 1) : ~IsSpace(r[k])}))

IncludeClosed(r) ==
  IF Len(r) < 2 \/ r[Len(r)] # II THEN NoMatch
  ELSE IncludeName(r,
         Min0({a \in 1..(Len(r) - 1) : \A k \in a..(Len(r) - 1) : ~IsSpace(r[k])}))

_re_include(line) == IncludeClosed(RStrip(line))

\* \s*@\+(.+)\+@\s*$
ExecOneLineIn(r) ==
  IF Len(r) >= 3 /\ r[1] = XO /\ r[Len(r)] = XC /\ NoNL(r)
  THEN Match(SubSeq(r, 2, Len(r) - 1), Empty, Empty)
  ELSE NoMatch

_re_exec_one_line(line) == ExecOneLineIn(RStrip(LStrip(line)))

\* A line that is one marker between white space.
OnlyMarker(t, marker) ==
  IF t # Empty /\ Head(t) = marker /\ AllSpace(Tail(t))
  THEN Match(Empty, Empty, Empty)
  ELSE NoMatch

\* \s*@\+\s*$()()
_re_exec_open(line) == OnlyMarker(LStrip(line), XO)

\* \s*\+@\s*$()
_re_exec_close(line) == OnlyMarker(LStrip(line), XC)

\* (.*)@%(.+)%@(.*)
\* d is what "." can match, i the last open marker that a close marker
\* follows with an expression between, j the last close marker.
EvalOneLineTo(d, i, j) ==
  Match(SubSeq(d, 1, i - 1), SubSeq(d, i + 1, j - 1), SubSeq(d, j + 1, Len(d)))

EvalOneLineAt(d, i) ==
  IF i = 0 THEN NoMatch
  ELSE EvalOneLineTo(d, i, Max0({k \in (i + 2)..Len(d) : d[k] = EC}))

EvalOneLineIn(d) ==
  EvalOneLineAt(d, Max0({i \in 1..Len(d) :
                           d[i] = EO /\ \E j \in (i + 2)..Len(d) : d[j] = EC}))

_re_eval_one_line(line) == EvalOneLineIn(Dot(line))

\* (.*)@\%(.+)
EvalOpenAt(d, i) ==
  IF i = 0 THEN NoMatch
  ELSE Match(SubSeq(d, 1, i - 1), SubSeq(d, i + 1, Len(d)), Empty)

EvalOpenIn(d) == EvalOpenAt(d, Max0({i \in 1..(Len(d) - 1) : d[i] = EO}))

_re_eval_open(line) == EvalOpenIn(Dot(line))

\* (.*)\%@\s*$
EvalCloseIn(r) ==
  IF r # Empty /\ r[Len(r)] = EC /\ NoNL(r)
  THEN Match(SubSeq(r, 1, Len(r) - 1), Empty, Empty)
  ELSE NoMatch

_re_eval_close(line) == EvalCloseIn(RStrip(line))

\* ------------------------------------------------------------------------
\* Bounds and inputs
\* ------------------------------------------------------------------------
MaxTopLen  == 2        \* lines of the top-level document
MaxFileLen == 2        \* lines of the included file "f"

TopName == "top"

\* Lines a top-level document is made of.
TopLines == {
  <<"k:", SP, "v", NL>>,                                  \* k: v
  <<"#", EO, "x", EC, SP, II, INC, SP, "m", II, NL>>,     \* #@%x%@ @@include m@@
  <<"-", SP, II, INC, SP, "f", II, NL>>,                  \* - @@include f@@
  <<EO, "1", EC, SP, II, INC, SP, "m", II, NL>>,          \* @%1%@ @@include m@@
  <<"-", SP, II, INC, SP, "f", NL>>,                      \* - @@include f
  <<XO, NL>>,                                             \* @+
  <<XC, NL>>,                                             \* +@
  <<XO, "k:", XC, NL>>,                                   \* @+k:+@
  <<"k:", SP, EO, "x", EC, "s", NL>>,                     \* k: @%x%@s
  <<"k:", SP, EO, "p()", NL>>,                            \* k: @%p()
  <<EC, NL>>,                                             \* %@
  <<"k:", SP, BEL, NL>>,                                  \* k: <control char>
  <<SP, NL>> }                                            \* a line of one space

\* Lines the included file "f" is made of; the file "m" does not exist.
FileLines == {
  <<"k:", SP, "v", NL>>,                                  \* k: v
  <<"k:", SP, "v">>,                                      \* k: v   (no line break)
  <<"#", "c", NL>>,                                       \* #c
  <<XO, "x=T", XC, NL>>,                                  \* @+x=T+@
  <<"k:", SP, EO, "x", EC, NL>>,                          \* k: @%x%@
  <<XO, NL>>,                                             \* @+
  <<II, INC, SP, "m", II, NL>> }                          \* @@include m@@

BSeq(S, n) == UNION {[1..k -> S] : k \in 0..n}

\* Only the last line of a text can lack its line break.
WellFormedText(c) == \A i \in 1..(Len(c) - 1) : c[i][Len(c[i])] = NL

Mentions(c, w) == \E i \in 1..Len(c) : \E j \in 1..Len(c[i]) : c[i][j] = w

\* ------------------------------------------------------------------------
\* Text helpers
\* ------------------------------------------------------------------------
\* Number of characters of a lexeme and of a text (Python's len).
CharLen(c) ==
  IF c \in {XO, XC, EO, EC, II, "k:"} THEN 2
  ELSE IF c \in {"p()", "x=T"} THEN 3
  ELSE IF c = INC THEN 7
  ELSE IF c = "import" THEN 6
  ELSE IF c = "nomod" THEN 5
  ELSE IF c = "from" THEN 4
  ELSE 1

RECURSIVE TextLen(_)
TextLen(s) == IF s = Empty THEN 0 ELSE CharLen(Head(s)) + TextLen(Tail(s))

\* "".join(list)
RECURSIVE Join(_)
Join(l) == IF l = << >> THEN Empty ELSE Head(l) \o Join(Tail(l))

\* s.replace("\n", new)
RECURSIVE Replace(_, _)
Replace(s, new) ==
  IF s = Empty THEN Empty
  ELSE (IF Head(s) = NL THEN new ELSE <<Head(s)>>) \o Replace(Tail(s), new)

\* re.sub(r"\n\s+\n", "\n", s): leftmost, longest, non-overlapping.
\* k is the last lexeme of the match that starts at the head of s, 0 if none.
RECURSIVE ReSub(_)
ReSubAt(s, k) ==
  IF k = 0 THEN <<Head(s)>> \o ReSub(Tail(s))
  ELSE <<NL>> \o ReSub(SubSeq(s, k + 1, Len(s)))

ReSub(s) ==
  IF s = Empty THEN Empty
  ELSE ReSubAt(s, IF Head(s) # NL THEN 0
                  ELSE Max0({k \in 3..Len(s) :
                        s[k] = NL /\ \A q \in 2..(k - 1) : IsSpace(s[q])}))

\* str.split("\n") keeping the non-empty pieces.
RECURSIVE SplitLines(_)
SplitAt(s, d) ==
  (IF d = Empty THEN << >> ELSE <<d>>) \o SplitLines(SubSeq(s, Len(d) + 2, Len(s)))

SplitLines(s) == IF s = Empty THEN << >> ELSE SplitAt(s, Dot(s))

\* ------------------------------------------------------------------------
\* The script-execution collaborators: Python's exec and eval
\* ------------------------------------------------------------------------
NoneValue == [kind |-> "none", text |-> Empty]
Unbound   == [kind |-> "unbound", text |-> Empty]
StrValue(t)   == [kind |-> "str", text |-> t]
OtherValue(t) == [kind |-> "other", text |-> t]        \* text is the repr

Names == {"x"}
TextT == <<"t", NL, "u">>                              \* the str 't\nu'

NoWhite(s) == SelectSeq(s, LAMBDA c : ~IsSpace(c))

\* exec(textwrap.dedent(body), globals): "x=T" binds x to the str TextT; the
\* empty block does nothing; any other statement does not compile.
RECURSIVE ExecStatements(_, _)
ExecStatements(stmts, g) ==
  IF stmts = Empty THEN [ok |-> TRUE, globals |-> g, exc |-> "None"]
  ELSE IF Head(stmts) = "x=T"
       THEN ExecStatements(Tail(stmts), [g EXCEPT !["x"] = StrValue(TextT)])
       ELSE [ok |-> FALSE, globals |-> g, exc |-> "SyntaxError"]

PyExec(body, g) == ExecStatements(NoWhite(body), g)

\* eval(expr, globals): a name, the literal 1, or the call p() that prints "o"
\* and returns None; anything else does not compile.
EvalRaises(exc) ==
  [ok |-> FALSE, value |-> NoneValue, captured |-> Empty, exc |-> exc]
EvalReturns(v, c) ==
  [ok |-> TRUE, value |-> v, captured |-> c, exc |-> "None"]

EvalAtom(e, g) ==
  IF Len(e) # 1 THEN EvalRaises("SyntaxError")
  ELSE IF e[1] \in Names
       THEN IF g[e[1]] = Unbound THEN EvalRaises("NameError")
            ELSE EvalReturns(g[e[1]], Empty)
  ELSE IF e[1] = "1" THEN EvalReturns(OtherValue(<<"1">>), Empty)
  ELSE IF e[1] = "p()" THEN EvalReturns(NoneValue, <<"o", NL>>)
  ELSE EvalRaises("SyntaxError")

PyEval(expr, g) == EvalAtom(NoWhite(expr), g)

\* ------------------------------------------------------------------------
\* Tokens and the line parsers
\* ------------------------------------------------------------------------
\* Token = namedtuple("Token", "line_type prefix match postfix")
Token(line_type, prefix, match, postfix) ==
  [line_type |-> line_type, prefix |-> prefix, match |-> match, postfix |-> postfix]

Miss == [hit |-> FALSE, act |-> "none", token |-> Token("REGULAR", Empty, Empty, Empty)]
Hit(act, token) == [hit |-> TRUE, act |-> act, token |-> token]

_parse_comment(line) ==
  IF _re_comment(line) THEN Hit("token", Token("COMMENT", Empty, line, Empty)) ELSE Miss

\* The token of an "include" hit carries the directive's prefix and the
\* filename; the caller opens the file.
IncludeHit(m) ==
  IF m.ok THEN Hit("include", Token("INCLUDE", m.g1, m.g2, Empty)) ELSE Miss

_parse_include(line) == IncludeHit(_re_include(line))

\* The token of a "grab" hit carries return_text and the first block_lines of
\* _grab_block; the caller reads the block.
ExecHit(one, open) ==
  IF one.ok THEN Hit("token", Token("EXEC", Empty, one.g1, Empty))
  ELSE IF open.ok THEN Hit("grab", Token("EXEC", open.g1, open.g2, Empty))
  ELSE Miss

_parse_exec(line) == ExecHit(_re_exec_one_line(line), _re_exec_open(line))

\* EvalHit with an open marker alone taken as a one-line expression.
EvalHit_to_end_of_line(one, open) ==
  IF one.ok THEN Hit("token", Token("EVAL", one.g1, one.g2, one.g3))
  ELSE IF open.ok THEN Hit("token", Token("EVAL", open.g1, open.g2, Empty))
  ELSE Miss

EvalHit(one, open) ==
  IF one.ok THEN Hit("token", Token("EVAL", one.g1, one.g2, one.g3))
  ELSE IF open.ok THEN Hit("grab", Token("EVAL", open.g1, open.g2, Empty))
  ELSE Miss

_parse_eval(line) == EvalHit(_re_eval_one_line(line), _re_eval_open(line))

\* _parsers with the comment parser tried last.
_parsers_comment_last(line) ==
  <<_parse_include(line), _parse_exec(line), _parse_eval(line), _parse_comment(line)>>

\* self._parsers, in order
_parsers(line) ==
  <<_parse_comment(line), _parse_include(line), _parse_exec(line), _parse_eval(line)>>

\* The first parser that does not return None decides; else the line is REGULAR.
FirstHit(rs, i, line) ==
  IF i = 0 THEN Hit("token", Token("REGULAR", Empty, line, Empty)) ELSE rs[i]

FirstOf(rs, line) == FirstHit(rs, Min0({i \in 1..Len(rs) : rs[i].hit}), line)

_parse_line(line) == FirstOf(_parsers(line), line)

\* closing_re of _grab_block
ClosingRe(capture_type, line) ==
  IF capture_type = "EXEC" THEN _re_exec_close(line) ELSE _re_eval_close(line)

\* _indent_tokens: every token but EXEC gets the pending prefix, which is the
\* directive's prefix for the first of them and the indent string afterwards.
RECURSIVE _indent_tokens(_, _, _)
_indent_tokens(toks, prefix, indent_string) ==
  IF toks = << >> THEN << >>
  ELSE IF Head(toks).line_type = "EXEC"
       THEN <<Head(toks)>> \o _indent_tokens(Tail(toks), prefix, indent_string)
       ELSE <<[Head(toks) EXCEPT !.prefix = prefix \o @]>>
              \o _indent_tokens(Tail(toks), indent_string, indent_string)

\* _process_eval with the line breaks rewritten before the captured output is
\* put in front of the value.
_process_eval_early_replace(token, value, captured) ==
  token.prefix
    \o captured
    \o Replace(IF value.kind = "none" THEN Empty ELSE value.text,
               <<NL>> \o Spaces(TextLen(token.prefix)))
    \o token.postfix \o <<NL>>

\* _process_eval after eval returned value and the captured output.
_process_eval(token, value, captured) ==
  token.prefix
    \o Replace(captured \o (IF value.kind = "none" THEN Empty ELSE value.text),
               <<NL>> \o Spaces(TextLen(token.prefix)))
    \o token.postfix \o <<NL>>

\* yaml.safe_load as far as dump() depends on it: a control character is
\* rejected by the reader (an error without problem_mark), a marker left in a
\* line that is not a comment is rejected by the scanner (with problem_mark).
SafeLoadLines(text, ls) ==
  IF \E i \in 1..Len(text) : text[i] = BEL THEN "unmarked"
  ELSE IF \E i \in 1..Len(ls) :
             /\ ~_re_comment(ls[i])
             /\ \E j \in 1..Len(ls[i]) : ls[i][j] \in {XO, EO, EC, II}
       THEN "marked"
  ELSE "ok"

SafeLoad(text) == SafeLoadLines(text, SplitLines(text))

\* yaml.dump(yaml.safe_load(text)): the canonical form of the parsed text.
Canonical(text) == <<"canonical">> \o text

\* ------------------------------------------------------------------------
\* State
\* ------------------------------------------------------------------------
VARIABLES
  yaml_str,       \* the lines of the top-level stream
  files,          \* the files open() can find, by name
  reformat,       \* the argument of pyaml_string / pyaml_file
  pc,             \* "load", "parse", "process", "return", "done"
  streams,        \* self._streams: [file, pos], pos lines already read
  calls,          \* the active _parse_stream calls: their tokens and, for an
                  \* include, the directive's prefix
  grab,           \* the _grab_block call in progress
  tokens,         \* the tokens _parse_stream returned to _process
  idx,            \* number of tokens _process_tokens has processed
  output,         \* the texts _process_token returned
  macro_globals,  \* self._macro_globals
  lines,          \* self._lines
  last_error,     \* self.last_error
  result,         \* the (text, error) pair returned by _pyaml
  events,         \* history: what was read, opened, executed and evaluated
  args,           \* the command line of __main__, when the run started there
  process         \* what the command wrote and the code it exited with

vars == <<yaml_str, files, reformat, pc, streams, calls, grab, tokens, idx,
          output, macro_globals, lines, last_error, result, events, args,
          process>>

input == <<yaml_str, files, reformat, args>>

\* A run started by a call of pyaml_string, not by the command line.
NoArgs == [cli |-> FALSE, file_ok |-> TRUE, output |-> "None"]

NotStarted == [written |-> << >>, exit_code |-> "None"]

NoGrab == [on |-> FALSE, capture_type |-> "EXEC", return_text |-> Empty,
           block_lines |-> Empty, line |-> Empty, pos |-> 0]

\* The filename captured by _re_include, as a name open() looks up.
FileName(match) == IF Len(match) = 1 THEN match[1] ELSE "?"

Content(name) == IF name = TopName THEN yaml_str ELSE files[name]

Top == streams[Len(streams)]
HasLine == streams # << >> /\ Top.pos < Len(Content(Top.file))
CurLine == Content(Top.file)[Top.pos + 1]

\* Bookkeeping attached to a token: the stream and line it was read from, the
\* prefix it was created with, and the include directives it was read under.
Via == [i \in 1..(Len(streams) - 1) |->
          [file |-> streams[i].file, pos |-> streams[i].pos,
           prefix |-> calls[i + 1].prefix]]

WithSrc(t, pos) ==
  [line_type |-> t.line_type, prefix |-> t.prefix, match |-> t.match,
   postfix |-> t.postfix,
   src |-> [file |-> Top.file, pos |-> pos, own |-> t.prefix, via |-> Via]]

\* A history entry: "read" (how the line was taken), "open", "openfail",
\* "close", "unterminated", "exec", "eval" (with what eval returned), "raise".
Event(ev, file, pos, how) ==
  [ev |-> ev, file |-> file, pos |-> pos, how |-> how, depth |-> Len(streams),
   value |-> NoneValue, captured |-> Empty]

EvalEvent(file, pos, value, captured) ==
  [ev |-> "eval", file |-> file, pos |-> pos, how |-> "ok", depth |-> Len(streams),
   value |-> value, captured |-> captured]

Init ==
  /\ yaml_str \in {c \in BSeq(TopLines, MaxTopLen) : WellFormedText(c)}
  /\ \E c \in {c \in BSeq(FileLines, MaxFileLen) : WellFormedText(c)} :
       /\ IF Mentions(yaml_str, "f") THEN TRUE ELSE c = << >>
       /\ files = [n \in {"f"} |-> c]
  /\ reformat \in BOOLEAN
  /\ pc = "load"
  /\ streams = << >>
  /\ calls = << >>
  /\ grab = NoGrab
  /\ tokens = << >>
  /\ idx = 0
  /\ output = << >>
  /\ macro_globals = [n \in Names |-> Unbound]
  /\ lines = Empty
  /\ last_error = "None"
  /\ result = [text |-> Empty, error |-> "None"]
  /\ events = << >>
  /\ args = NoArgs
  /\ process = NotStarted

\* ------------------------------------------------------------------------
\* load -> _process -> _parse_stream
\* ------------------------------------------------------------------------
\* The except clause of _process: the failure becomes last_error and load
\* returns the empty text.
Raise(exc) ==
  /\ last_error' = exc
  /\ lines' = Empty
  /\ pc' = "return"

ReadLine == streams' = [streams EXCEPT ![Len(streams)].pos = @ + 1]

AppendToken(t) == calls' = [calls EXCEPT ![Len(calls)].tokens = Append(@, t)]

\* _pyaml creates the processor and load() enters _parse_stream(stream).
Load ==
  /\ pc = "load"
  /\ pc' = "parse"
  /\ streams' = <<[file |-> TopName, pos |-> 0]>>
  /\ calls' = <<[tokens |-> << >>, prefix |-> Empty]>>
  /\ UNCHANGED <<input, process, grab, tokens, idx, output, macro_globals, lines,
                 last_error, result, events>>

\* A line that one parser turns into a token at once.
ParseToken ==
  /\ pc = "parse" /\ ~grab.on /\ HasLine
  /\ \E r \in {_parse_line(CurLine)} :
         /\ r.act = "token"
         /\ ReadLine
         /\ AppendToken(WithSrc(r.token, Top.pos + 1))
         /\ events' = Append(events,
                        Event("read", Top.file, Top.pos + 1, r.token.line_type))
  /\ UNCHANGED <<input, process, pc, grab, tokens, idx, output, macro_globals, lines,
                 last_error, result>>

\* IncludeOpen with the opened stream not appended to self._streams.
IncludeOpen_no_push ==
  /\ pc = "parse" /\ ~grab.on /\ HasLine
  /\ \E r \in {_parse_line(CurLine)} :
         /\ r.act = "include"
         /\ FileName(r.token.match) \in DOMAIN files
         /\ ReadLine
         /\ calls' = Append(calls, [tokens |-> << >>, prefix |-> r.token.prefix])
         /\ events' = events \o
                        << Event("read", Top.file, Top.pos + 1, "INCLUDE"),
                           Event("open", FileName(r.token.match), 0, "INCLUDE") >>
  /\ UNCHANGED <<input, process, pc, grab, tokens, idx, output, macro_globals, lines,
                 last_error, result>>

\* _parse_include opens the file and enters _parse_stream on it.
IncludeOpen ==
  /\ pc = "parse" /\ ~grab.on /\ HasLine
  /\ \E r \in {_parse_line(CurLine)} :
         /\ r.act = "include"
         /\ FileName(r.token.match) \in DOMAIN files
         /\ streams' = Append([streams EXCEPT ![Len(streams)].pos = @ + 1],
                              [file |-> FileName(r.token.match), pos |-> 0])
         /\ calls' = Append(calls, [tokens |-> << >>, prefix |-> r.token.prefix])
         /\ events' = events \o
                        << Event("read", Top.file, Top.pos + 1, "INCLUDE"),
                           Event("open", FileName(r.token.match), 0, "INCLUDE") >>
  /\ UNCHANGED <<input, process, pc, grab, tokens, idx, output, macro_globals, lines,
                 last_error, result>>

\* IncludeNotFound with the failure caught where it happens: the error is
\* recorded, the directive expands to nothing and parsing goes on.
IncludeNotFound_caught ==
  /\ pc = "parse" /\ ~grab.on /\ HasLine
  /\ \E r \in {_parse_line(CurLine)} :
         /\ r.act = "include"
         /\ FileName(r.token.match) \notin DOMAIN files
         /\ ReadLine
         /\ events' = events \o
                        << Event("read", Top.file, Top.pos + 1, "INCLUDE"),
                           Event("openfail", FileName(r.token.match), 0, "INCLUDE") >>
  /\ last_error' = "FileNotFoundError"
  /\ UNCHANGED <<input, process, pc, calls, grab, tokens, idx, output, macro_globals,
                 lines, result>>

\* open() raises FileNotFoundError, which nothing catches before _process.
IncludeNotFound ==
  /\ pc = "parse" /\ ~grab.on /\ HasLine
  /\ \E r \in {_parse_line(CurLine)} :
         /\ r.act = "include"
         /\ FileName(r.token.match) \notin DOMAIN files
         /\ ReadLine
         /\ events' = events \o
                        << Event("read", Top.file, Top.pos + 1, "INCLUDE"),
                           Event("openfail", FileName(r.token.match), 0, "INCLUDE") >>
  /\ Raise("FileNotFoundError")
  /\ UNCHANGED <<input, process, calls, grab, tokens, idx, output, macro_globals, result>>

\* _parse_exec / _parse_eval matched an open marker: _grab_block starts.
BlockOpen ==
  /\ pc = "parse" /\ ~grab.on /\ HasLine
  /\ \E r \in {_parse_line(CurLine)} :
         /\ r.act = "grab"
         /\ ReadLine
         /\ grab' = [on |-> TRUE, capture_type |-> r.token.line_type,
                     return_text |-> r.token.prefix,
                     block_lines |-> r.token.match,
                     line |-> CurLine, pos |-> Top.pos + 1]
         /\ events' = Append(events,
                        Event("read", Top.file, Top.pos + 1,
                              IF r.token.line_type = "EXEC" THEN "OPEN_EXEC"
                              ELSE "OPEN_EVAL"))
  /\ UNCHANGED <<input, process, pc, calls, tokens, idx, output, macro_globals, lines,
                 last_error, result>>

\* _grab_block reads a line that is not the close line.
GrabBody ==
  /\ pc = "parse" /\ grab.on /\ HasLine
  /\ ~ClosingRe(grab.capture_type, CurLine).ok
  /\ ReadLine
  /\ grab' = [grab EXCEPT !.block_lines = @ \o CurLine]
  /\ events' = Append(events, Event("read", Top.file, Top.pos + 1, "BODY"))
  /\ UNCHANGED <<input, process, pc, calls, tokens, idx, output, macro_globals, lines,
                 last_error, result>>

\* _grab_block reads the close line and returns the token.
GrabClose ==
  /\ pc = "parse" /\ grab.on /\ HasLine
  /\ \E m \in {ClosingRe(grab.capture_type, CurLine)} :
         /\ m.ok
         /\ ReadLine
         /\ AppendToken(WithSrc(Token(grab.capture_type, grab.return_text,
                                      grab.block_lines \o m.g1, Empty),
                                grab.pos))
  /\ grab' = NoGrab
  /\ events' = Append(events, Event("read", Top.file, Top.pos + 1, "CLOSE"))
  /\ UNCHANGED <<input, process, pc, tokens, idx, output, macro_globals, lines,
                 last_error, result>>

\* The stream ends inside _grab_block: it returns None, so does the parser
\* that called it, and _parse_line goes on with the parsers after it.  Another
\* open marker found there reads the same exhausted stream.
GrabExhausted ==
  /\ pc = "parse" /\ grab.on /\ ~HasLine
  /\ \E rest \in {IF grab.capture_type = "EXEC" THEN _parse_eval(grab.line) ELSE Miss} :
       AppendToken(WithSrc(IF rest.hit /\ rest.act = "token" THEN rest.token
                           ELSE Token("REGULAR", Empty, grab.line, Empty),
                           grab.pos))
  /\ grab' = NoGrab
  /\ events' = Append(events,
                 Event("unterminated", Top.file, grab.pos, grab.capture_type))
  /\ UNCHANGED <<input, process, pc, streams, tokens, idx, output, macro_globals, lines,
                 last_error, result>>

\* EndInclude with the tokens of the included stream put in front of the
\* tokens of the enclosing stream.
EndInclude_in_front ==
  /\ pc = "parse" /\ ~grab.on /\ ~HasLine /\ Len(streams) > 1
  /\ \E n \in {Len(calls)} :
       calls' = [SubSeq(calls, 1, n - 1) EXCEPT ![n - 1].tokens =
                   _indent_tokens(calls[n].tokens, calls[n].prefix,
                                  Spaces(TextLen(calls[n].prefix))) \o @]
  /\ streams' = SubSeq(streams, 1, Len(streams) - 1)
  /\ events' = Append(events, Event("close", Top.file, Top.pos, "INCLUDE"))
  /\ UNCHANGED <<input, process, pc, grab, tokens, idx, output, macro_globals, lines,
                 last_error, result>>

\* The included stream is exhausted: _parse_stream pops it and returns, the
\* with block closes the file, _indent_tokens re-indents the tokens and the
\* enclosing _parse_stream extends its own tokens with them.
EndInclude ==
  /\ pc = "parse" /\ ~grab.on /\ ~HasLine /\ Len(streams) > 1
  /\ \E n \in {Len(calls)} :
       calls' = [SubSeq(calls, 1, n - 1) EXCEPT ![n - 1].tokens =
                   @ \o _indent_tokens(calls[n].tokens, calls[n].prefix,
                                       Spaces(TextLen(calls[n].prefix)))]
  /\ streams' = SubSeq(streams, 1, Len(streams) - 1)
  /\ events' = Append(events, Event("close", Top.file, Top.pos, "INCLUDE"))
  /\ UNCHANGED <<input, process, pc, grab, tokens, idx, output, macro_globals, lines,
                 last_error, result>>

\* The top-level stream is exhausted: _parse_stream returns to _process.
EndTop ==
  /\ pc = "parse" /\ ~grab.on /\ ~HasLine /\ Len(streams) = 1
  /\ streams' = << >>
  /\ calls' = << >>
  /\ tokens' = calls[1].tokens
  /\ pc' = "process"
  /\ UNCHANGED <<input, process, grab, idx, output, macro_globals, lines, last_error,
                 result, events>>

\* ------------------------------------------------------------------------
\* _process_tokens
\* ------------------------------------------------------------------------
NextToken == tokens[idx + 1]

\* REGULAR and COMMENT tokens: prefix and line.
EmitToken ==
  /\ pc = "process" /\ idx < Len(tokens)
  /\ NextToken.line_type \in {"REGULAR", "COMMENT"}
  /\ output' = Append(output, NextToken.prefix \o NextToken.match)
  /\ idx' = idx + 1
  /\ UNCHANGED <<input, process, pc, streams, calls, grab, tokens, macro_globals, lines,
                 last_error, result, events>>

\* ExecToken with the block run in a copy of the globals.
ExecToken_copy ==
  /\ pc = "process" /\ idx < Len(tokens)
  /\ NextToken.line_type = "EXEC"
  /\ \E r \in {PyExec(NextToken.match, macro_globals)} : r.ok
  /\ output' = Append(output, NextToken.prefix)
  /\ idx' = idx + 1
  /\ events' = Append(events,
                 Event("exec", NextToken.src.file, NextToken.src.pos, "ok"))
  /\ UNCHANGED <<input, process, pc, streams, calls, grab, tokens, macro_globals, lines,
                 last_error, result>>

\* EXEC token: the block runs in the shared globals; only the prefix is output.
ExecToken ==
  /\ pc = "process" /\ idx < Len(tokens)
  /\ NextToken.line_type = "EXEC"
  /\ \E r \in {PyExec(NextToken.match, macro_globals)} :
         /\ r.ok
         /\ macro_globals' = r.globals
  /\ output' = Append(output, NextToken.prefix)
  /\ idx' = idx + 1
  /\ events' = Append(events,
                 Event("exec", NextToken.src.file, NextToken.src.pos, "ok"))
  /\ UNCHANGED <<input, process, pc, streams, calls, grab, tokens, lines, last_error,
                 result>>

\* EVAL token: the expression is evaluated in the shared globals.
EvalToken ==
  /\ pc = "process" /\ idx < Len(tokens)
  /\ NextToken.line_type = "EVAL"
  /\ \E r \in {PyEval(NextToken.match, macro_globals)} :
         /\ r.ok
         /\ output' = Append(output, _process_eval(NextToken, r.value, r.captured))
         /\ events' = Append(events,
                        EvalEvent(NextToken.src.file, NextToken.src.pos,
                                  r.value, r.captured))
  /\ idx' = idx + 1
  /\ UNCHANGED <<input, process, pc, streams, calls, grab, tokens, macro_globals, lines,
                 last_error, result>>

\* exec raises: the except clause of _process takes over.
ExecFailure ==
  /\ pc = "process" /\ idx < Len(tokens)
  /\ NextToken.line_type = "EXEC"
  /\ \E r \in {PyExec(NextToken.match, macro_globals)} :
       /\ ~r.ok
       /\ Raise(r.exc)
       /\ events' = Append(events,
                      Event("raise", NextToken.src.file, NextToken.src.pos, r.exc))
  /\ UNCHANGED <<input, process, streams, calls, grab, tokens, idx, output,
                 macro_globals, result>>

\* EvalFailure with the failure caught at the token: the error is recorded,
\* the token outputs nothing and the next token is processed.
EvalFailure_continue ==
  /\ pc = "process" /\ idx < Len(tokens)
  /\ NextToken.line_type = "EVAL"
  /\ \E r \in {PyEval(NextToken.match, macro_globals)} :
       /\ ~r.ok
       /\ last_error' = r.exc
       /\ events' = Append(events,
                      Event("raise", NextToken.src.file, NextToken.src.pos, r.exc))
  /\ output' = Append(output, Empty)
  /\ idx' = idx + 1
  /\ UNCHANGED <<input, process, pc, streams, calls, grab, tokens, macro_globals, lines,
                 result>>

\* eval raises: the except clause of _process takes over.
EvalFailure ==
  /\ pc = "process" /\ idx < Len(tokens)
  /\ NextToken.line_type = "EVAL"
  /\ \E r \in {PyEval(NextToken.match, macro_globals)} :
       /\ ~r.ok
       /\ Raise(r.exc)
       /\ events' = Append(events,
                      Event("raise", NextToken.src.file, NextToken.src.pos, r.exc))
  /\ UNCHANGED <<input, process, streams, calls, grab, tokens, idx, output,
                 macro_globals, result>>

\* All tokens processed: _process joins the output, load stores it.
JoinOutput ==
  /\ pc = "process" /\ idx = Len(tokens)
  /\ lines' = Join(output)
  /\ pc' = "return"
  /\ UNCHANGED <<input, process, streams, calls, grab, tokens, idx, output,
                 macro_globals, last_error, result, events>>

\* ------------------------------------------------------------------------
\* The rest of _pyaml: re.sub on the loaded text, then dump() when asked
\* ------------------------------------------------------------------------
ReturnUnvalidated ==
  /\ pc = "return"
  /\ ~(last_error = "None" /\ reformat)
  /\ result' = [text |-> ReSub(lines), error |-> last_error]
  /\ pc' = "done"
  /\ UNCHANGED <<input, process, streams, calls, grab, tokens, idx, output,
                 macro_globals, lines, last_error, events>>

\* dump(): the text parses and is serialized again.
DumpOk ==
  /\ pc = "return"
  /\ last_error = "None" /\ reformat
  /\ SafeLoad(lines) = "ok"
  /\ result' = [text |-> Canonical(lines), error |-> "None"]
  /\ pc' = "done"
  /\ UNCHANGED <<input, process, streams, calls, grab, tokens, idx, output,
                 macro_globals, lines, last_error, events>>

\* dump(): yaml.YAMLError; last_error is set only when the exception has a
\* problem_mark, and "" is returned in both cases.
DumpParseFailure ==
  /\ pc = "return"
  /\ last_error = "None" /\ reformat
  /\ \E exc \in {SafeLoad(lines)} :
       /\ exc # "ok"
       /\ last_error' = IF exc = "marked" THEN "YAMLError" ELSE last_error
  /\ result' = [text |-> Empty, error |-> last_error']
  /\ pc' = "done"
  /\ UNCHANGED <<input, process, streams, calls, grab, tokens, idx, output,
                 macro_globals, lines, events>>

Next ==
  \/ Load
  \/ ParseToken
  \/ IncludeOpen
  \/ IncludeNotFound
  \/ BlockOpen
  \/ GrabBody
  \/ GrabClose
  \/ GrabExhausted
  \/ EndInclude
  \/ EndTop
  \/ EmitToken
  \/ ExecToken
  \/ EvalToken
  \/ ExecFailure
  \/ EvalFailure
  \/ JoinOutput
  \/ ReturnUnvalidated
  \/ DumpOk
  \/ DumpParseFailure

Spec == Init /\ [][Next]_vars

\* ------------------------------------------------------------------------
\* Properties
\* ------------------------------------------------------------------------
EventIdx == 1..Len(events)
TokenIdx == 1..Len(tokens)

\* The line a "read" event read.
LineOf(e) == Content(e.file)[e.pos]

\* A fatal error ended the run before validation.
Fatal == \E i \in EventIdx : events[i].ev \in {"openfail", "raise"}

\* C1: an exec block that is still open when its stream ends makes the run
\* fail: the result has an error and no text, and the open line is never a
\* REGULAR token.
C1_UnterminatedBlockIsFatal ==
  /\ (pc = "done" /\ \E i \in EventIdx :
                        events[i].ev = "unterminated" /\ events[i].how = "EXEC")
       => (result.error # "None" /\ result.text = Empty)
  /\ \A i \in TokenIdx :
       tokens[i].line_type = "REGULAR" => ~_re_exec_open(tokens[i].match).ok

\* C2: once open() failed for an include, at any depth, the run is over with
\* FileNotFoundError and the empty text, whatever reformat is.
C2_IncludeNotFoundAborts ==
  (\E i \in EventIdx : events[i].ev = "openfail")
    => /\ pc \in {"return", "done"}
       /\ last_error = "FileNotFoundError"
       /\ lines = Empty
       /\ pc = "done" => result = [text |-> Empty, error |-> "FileNotFoundError"]

\* A finished run with validation asked for, where the include of the missing
\* file sat in an included file, after other lines.
C2_Witness ==
  /\ pc = "done" /\ reformat
  /\ \E i \in EventIdx :
       events[i].ev = "openfail" /\ events[i].depth = 2 /\ i > 4

\* The tokens read under the same include directive as token i.
SameInclude(i) == {j \in TokenIdx : tokens[j].src.via = tokens[i].src.via}

\* Token i gives the first line of its include's expansion.
FirstOfInclude(i) ==
  \A j \in SameInclude(i) : j < i => tokens[j].line_type = "EXEC"

\* C3: under an include directive with prefix P of width C, the first line of
\* the expansion follows P, every later REGULAR or EVAL token is shifted by C
\* spaces, and COMMENT and EXEC tokens keep the prefix they were read with.
C3_IncludeIndentation ==
  \A i \in TokenIdx :
    Len(tokens[i].src.via) = 1 =>
      IF tokens[i].line_type \in {"COMMENT", "EXEC"}
      THEN tokens[i].prefix = tokens[i].src.own
      ELSE tokens[i].prefix =
             (IF FirstOfInclude(i) THEN tokens[i].src.via[1].prefix
              ELSE Spaces(TextLen(tokens[i].src.via[1].prefix)))
               \o tokens[i].src.own

\* The output of the tokens read under the include directive of token i.
RECURSIVE ExpansionFrom(_, _)
ExpansionFrom(via, j) ==
  IF j > Len(output) THEN Empty
  ELSE (IF tokens[j].src.via = via THEN output[j] ELSE Empty)
         \o ExpansionFrom(via, j + 1)

EndsWithOneBreak(t) ==
  t # Empty => /\ t[Len(t)] = NL
               /\ Len(t) >= 2 => t[Len(t) - 1] # NL

\* C4: in a run whose tokens were all processed, the text an include directive
\* expanded to ends with exactly one line break.
C4_IncludeEndsWithOneBreak ==
  (pc \in {"return", "done"} /\ Len(output) = Len(tokens))
    => \A i \in TokenIdx :
         tokens[i].src.via # << >>
           => EndsWithOneBreak(ExpansionFrom(tokens[i].src.via, 1))

\* The statement x=T is part of an exec body.
Binds(body, n) == n = "x" /\ \E k \in 1..Len(body) : body[k] = "x=T"

\* C5: a name bound by an exec block of any stream stays bound for the rest
\* of the run, and no later expression of any stream fails to find it.
C5_SharedEnvironment ==
  \A n \in Names :
    (\E j \in 1..idx : tokens[j].line_type = "EXEC" /\ Binds(tokens[j].match, n))
      => /\ macro_globals[n] # Unbound
         /\ ~(last_error = "NameError" /\ NoWhite(tokens[idx + 1].match) = <<n>>)

\* The parent file evaluated an expression after an include whose block had
\* bound the name.
C5_Witness ==
  \E i, j \in EventIdx :
    /\ i < j
    /\ events[i].ev = "exec" /\ events[i].file = "f"
    /\ events[j].ev = "eval" /\ events[j].file = TopName
    /\ events[j].value.kind = "str"

\* The display text of a value: str(v) for a str, repr(v) otherwise.
DisplayText(v) == IF v.kind = "none" THEN <<"None">> ELSE v.text

\* t with every line break followed by n more spaces.
RECURSIVE Reflowed(_, _)
Reflowed(t, n) ==
  IF t = Empty THEN Empty
  ELSE <<Head(t)>> \o (IF Head(t) = NL THEN Spaces(n) ELSE Empty)
         \o Reflowed(Tail(t), n)

\* The processed token an "eval" event belongs to.
TokenOfEval(i) ==
  CHOOSE j \in 1..Len(output) :
    Cardinality({k \in 1..i : events[k].ev \in {"exec", "eval"}})
      = Cardinality({k \in 1..j : tokens[k].line_type \in {"EXEC", "EVAL"}})
    /\ tokens[j].line_type = "EVAL"

EvalOutputIs(j, text) ==
  output[j] = tokens[j].prefix
                \o Reflowed(text, TextLen(tokens[j].prefix))
                \o tokens[j].postfix \o <<NL>>

\* C6 as stated: the output of an EVAL token is prefix + V' + suffix + line
\* break, V the value when it is a str and its display text otherwise.
C6_EvalOutputOfDisplayText ==
  \A i \in EventIdx :
    events[i].ev = "eval"
      => EvalOutputIs(TokenOfEval(i), DisplayText(events[i].value))

\* C6 amended: V is the captured output followed by nothing for None, by the
\* value for a str and by its display text otherwise; every line break of V is
\* followed by exactly len(prefix) spaces, with the prefix the token has after
\* include re-indentation.
C6_EvalOutputReflowed ==
  \A i \in EventIdx :
    events[i].ev = "eval"
      => EvalOutputIs(TokenOfEval(i),
                      events[i].captured
                        \o (IF events[i].value.kind = "none" THEN Empty
                            ELSE DisplayText(events[i].value)))

\* An expression of an included file returned a str with a line break, and
\* its token had been re-indented.
C6_Witness ==
  \E i \in EventIdx :
    /\ events[i].ev = "eval" /\ events[i].file = "f"
    /\ \E k \in 1..Len(events[i].value.text) : events[i].value.text[k] = NL
    /\ tokens[TokenOfEval(i)].prefix # tokens[TokenOfEval(i)].src.own

\* C7: with reformat, a text that does not parse gives the empty text and an
\* error, whatever the parse failure is.
C7_ParseFailureHasError ==
  (pc = "done" /\ reformat /\ ~Fatal /\ SafeLoad(lines) # "ok")
    => (result.text = Empty /\ result.error # "None")

\* The rule the line grammar gives a line read outside a block, the rules
\* taken in the order comment, include, exec block, eval, regular.
FirstRule(line) ==
  IF _re_comment(line) THEN "COMMENT"
  ELSE IF _re_include(line).ok THEN "INCLUDE"
  ELSE IF _re_exec_one_line(line).ok THEN "EXEC"
  ELSE IF _re_exec_open(line).ok THEN "OPEN_EXEC"
  ELSE IF _re_eval_one_line(line).ok THEN "EVAL"
  ELSE IF _re_eval_open(line).ok THEN "OPEN_EVAL"
  ELSE "REGULAR"

ReadOutsideBlock(i) ==
  events[i].ev = "read" /\ events[i].how \notin {"BODY", "CLOSE"}

HasMarker(line) == \E k \in 1..Len(line) : line[k] \in {XO, XC, EO, EC, II}

\* C8: a line read outside a block is taken by the first rule that matches;
\* a file is opened only for a line read as an include, and nothing is
\* executed or evaluated for a comment line.
C8_FirstMatchingRule ==
  \A i \in EventIdx :
    /\ ReadOutsideBlock(i) => events[i].how = FirstRule(LineOf(events[i]))
    /\ events[i].ev \in {"open", "openfail"}
         => /\ events[i - 1].ev = "read" /\ events[i - 1].how = "INCLUDE"
            /\ ~_re_comment(LineOf(events[i - 1]))
    /\ events[i].ev \in {"exec", "eval", "raise"}
         => ~_re_comment(LineOf(events[i]))

\* A comment line with include and eval markers was read as a comment, and a
\* line of both the include and the eval shape as an include.
C8_Witness ==
  /\ \E i \in EventIdx :
       /\ ReadOutsideBlock(i) /\ events[i].how = "COMMENT"
       /\ HasMarker(LineOf(events[i]))
  /\ \E i \in EventIdx :
       /\ ReadOutsideBlock(i) /\ events[i].how = "INCLUDE"
       /\ _re_eval_one_line(LineOf(events[i])).ok

\* prefix + include marker + white space + filename + optional white space,
\* with no close marker; r is the line without the trailing white space.
IncludeWithoutCloseIn(r) ==
  \E i \in 1..Len(r) : \E b \in {i + 1, i + 2} : \E a \in (b + 2)..Len(r) :
    /\ r[i] = II
    /\ b = i + 2 => r[i + 1] = SP
    /\ r[b] = INC
    /\ \A k \in (b + 1)..(a - 1) : IsSpace(r[k])
    /\ \A k \in a..Len(r) : ~IsSpace(r[k]) /\ r[k] # II

IncludeWithoutClose(line) == IncludeWithoutCloseIn(RStrip(line))

HasOtherMarker(line) == \E k \in 1..Len(line) : line[k] \in {XO, XC, EO, EC}

\* C9 as stated: a line with the include open marker only is read as an
\* include and its file is opened.
C9_IncludeCloseOptional ==
  \A i \in EventIdx :
    (ReadOutsideBlock(i) /\ IncludeWithoutClose(LineOf(events[i])))
      => /\ events[i].how = "INCLUDE"
         /\ i < Len(events) => events[i + 1].ev \in {"open", "openfail"}

\* C9 amended: the close marker is required; a line with the include open
\* marker only is never read as an include and opens no file; when it is not a
\* comment and has no exec or eval marker it is a REGULAR token, output
\* unchanged.
C9_IncludeCloseRequired ==
  /\ \A i \in EventIdx :
       (ReadOutsideBlock(i) /\ IncludeWithoutClose(LineOf(events[i])))
         => /\ events[i].how # "INCLUDE"
            /\ i < Len(events) => events[i + 1].ev \notin {"open", "openfail"}
            /\ (~_re_comment(LineOf(events[i])) /\ ~HasOtherMarker(LineOf(events[i])))
                 => events[i].how = "REGULAR"
  /\ \A j \in 1..Len(output) :
       (tokens[j].line_type = "REGULAR" /\ tokens[j].src.via = << >>
          /\ IncludeWithoutClose(tokens[j].match))
         => output[j] = Content(tokens[j].src.file)[tokens[j].src.pos]

\* The file named by the marker-only line exists and is not empty, and the run
\* returned the line as text.
C9_Witness ==
  /\ pc = "done" /\ ~reformat /\ files["f"] # << >>
  /\ \E j \in 1..Len(output) :
       /\ IncludeWithoutClose(tokens[j].match)
       /\ result.text = output[j]

\* An eval open marker with an expression and no close marker on the line.
EvalWithoutClose(line) ==
  FirstRule(line) = "OPEN_EVAL"

\* C10 as stated: the line is consumed alone; the line after it is read as a
\* line of its own.
C10_EvalToEndOfLine ==
  \A i \in EventIdx :
    (ReadOutsideBlock(i) /\ EvalWithoutClose(LineOf(events[i]))
       /\ i < Len(events) /\ events[i + 1].ev = "read")
      => ReadOutsideBlock(i + 1)

\* The events after event i up to event j are lines read into the block.
AllBody(i, j) == \A k \in (i + 1)..(j - 1) : events[k].how = "BODY"

\* The first line after line pos of a file that ends with the eval close
\* marker, 0 if there is none.
EvalCloseLine(file, pos) ==
  Min0({q \in (pos + 1)..Len(Content(file)) : _re_eval_close(Content(file)[q]).ok})

\* The expression of the block opened at line pos and closed at line q.
BlockExpression(file, pos, q) ==
  _re_eval_open(Content(file)[pos]).g2
    \o Join(SubSeq(Content(file), pos + 1, q - 1))
    \o _re_eval_close(Content(file)[q]).g1

\* C10 amended: the line opens a multi-line expression.  The lines of the same
\* stream after it are read into the expression up to the first line that ends
\* with the close marker, or to the end of the stream, and are not classified;
\* the token made at the close line has the open line's prefix, no suffix and
\* the text between the markers as expression.
C10_EvalSpansLines ==
  /\ \A i \in EventIdx :
       (ReadOutsideBlock(i) /\ EvalWithoutClose(LineOf(events[i])))
         => /\ events[i].how = "OPEN_EVAL"
            /\ \A j \in (i + 1)..Len(events) :
                 AllBody(i, j)
                   => /\ events[j].ev \in {"read", "unterminated"}
                      /\ events[j].file = events[i].file
                      /\ events[j].ev = "read"
                           => /\ events[j].how \in {"BODY", "CLOSE"}
                              /\ events[j].pos = events[i].pos + (j - i)
                              /\ (events[j].how = "CLOSE")
                                   = _re_eval_close(LineOf(events[j])).ok
                      /\ events[j].ev = "unterminated"
                           => events[j].pos = events[i].pos
  /\ \A j \in 1..Len(output) :
       (tokens[j].line_type = "EVAL"
          /\ EvalWithoutClose(Content(tokens[j].src.file)[tokens[j].src.pos]))
         => /\ tokens[j].postfix = Empty
            /\ tokens[j].src.own
                 = _re_eval_open(Content(tokens[j].src.file)[tokens[j].src.pos]).g1
            /\ tokens[j].match
                 = BlockExpression(tokens[j].src.file, tokens[j].src.pos,
                     EvalCloseLine(tokens[j].src.file, tokens[j].src.pos))
            /\ output[j][Len(output[j])] = NL

\* An open-marker-only eval line was closed by the next line and its
\* expression was evaluated.
C10_Witness ==
  \E i, j \in EventIdx :
    /\ i + 1 < j
    /\ ReadOutsideBlock(i) /\ EvalWithoutClose(LineOf(events[i]))
    /\ events[i + 1].ev = "read" /\ events[i + 1].how = "CLOSE"
    /\ events[j].ev = "eval"
    /\ events[j].file = events[i].file /\ events[j].pos = events[i].pos

\* ------------------------------------------------------------------------
\* yaml_macros (src/yaml_macros/macros.py): the regular expressions of class
\* YAML_macros.  Its only marker is "@@".  A line is what iterating a stream
\* yields, so a line break can only be its last lexeme.
\* ------------------------------------------------------------------------

\* line.count("@@")
CountMarker(line) == Cardinality({i \in 1..Len(line) : line[i] = II})

\* ^(.*)@@\s*$
ExecBlockStartIn(r) ==
  IF r # Empty /\ r[Len(r)] = II /\ NoNL(r)
  THEN Match(SubSeq(r, 1, Len(r) - 1), Empty, Empty)
  ELSE NoMatch

_re_exec_block_start(line) == ExecBlockStartIn(RStrip(line))

\* ^\s*@@\s*$
_re_exec_block_end(line) == OnlyMarker(LStrip(line), II)

\* ^\s*@@((import|from)\s+.*?)(@@)?\s*$
\* t is the line without the leading \s*, r is t without the trailing \s*.
ImportIn(t, r) ==
  IF Len(t) < 3 \/ t[1] # II \/ t[2] \notin {"import", "from"} \/ ~IsSpace(t[3])
  THEN NoMatch
  ELSE IF Len(r) < 3 THEN Match(SubSeq(t, 2, Len(t)), Empty, Empty)
  ELSE Match(SubSeq(r, 2, IF r[Len(r)] = II THEN Len(r) - 1 ELSE Len(r)),
             Empty, Empty)

ImportAt(t) == ImportIn(t, RStrip(t))

_re_import(line) == ImportAt(LStrip(line))

\* ^(.*)@@include\s+(\S+?)(@@)?\s*$
\* r is the line without the trailing \s*, a and e the first and the last
\* lexeme of the filename, b the first lexeme of \s+.
MacrosIncludeMarker(r, a, e, b) ==
  IF b < 3 \/ r[b - 1] # INC \/ r[b - 2] # II \/ ~NoNL(SubSeq(r, 1, b - 3))
  THEN NoMatch
  ELSE Match(SubSeq(r, 1, b - 3), SubSeq(r, a, e), Empty)

MacrosIncludeName(r, a, e) ==
  MacrosIncludeMarker(r, a, e,
    Min0({b \in 1..(a - 1) : \A k \in b..(a - 1) : IsSpace(r[k])}))

MacrosIncludeIn(r, a) ==
  IF a = 0 THEN NoMatch
  ELSE MacrosIncludeName(r, a,
         IF r[Len(r)] = II /\ a < Len(r) THEN Len(r) - 1 ELSE Len(r))

MacrosIncludeRun(r) ==
  MacrosIncludeIn(r, Min0({a \in 1..Len(r) : \A k \in a..Len(r) : ~IsSpace(r[k])}))

YAML_macros_re_include(line) == MacrosIncludeRun(RStrip(line))

\* ^(.*)@@(.+)@@(.*)
\* d is what "." can match, i the last marker that another marker follows
\* with an expression between, j the last marker.
Eval1To(d, i, j) ==
  Match(SubSeq(d, 1, i - 1), SubSeq(d, i + 1, j - 1), SubSeq(d, j + 1, Len(d)))

Eval1At(d, i) ==
  IF i = 0 THEN NoMatch
  ELSE Eval1To(d, i, Max0({k \in (i + 2)..Len(d) : d[k] = II}))

Eval1In(d) ==
  Eval1At(d, Max0({i \in 1..Len(d) :
                     d[i] = II /\ \E j \in (i + 2)..Len(d) : d[j] = II}))

_re_eval1(line) == Eval1In(Dot(line))

\* ^(.*)@@(.+)()
Eval2At(d, i) ==
  IF i = 0 THEN NoMatch
  ELSE Match(SubSeq(d, 1, i - 1), SubSeq(d, i + 1, Len(d)), Empty)

Eval2In(d) == Eval2At(d, Max0({i \in 1..(Len(d) - 1) : d[i] = II}))

_re_eval2(line) == Eval2In(Dot(line))

\* ------------------------------------------------------------------------
\* yaml_macros: the line parsers and the token processors
\* ------------------------------------------------------------------------
\* _parse_exec_block up to its loop: the token of the "grab" hit carries
\* return_text and the empty block_lines.
ExecBlockHit(count, m) ==
  IF count = 1 /\ m.ok THEN Hit("grab", Token("BLOCK", m.g1, Empty, Empty)) ELSE Miss

_parse_exec_block(line) == ExecBlockHit(CountMarker(line), _re_exec_block_start(line))

ImportHit(m) ==
  IF m.ok THEN Hit("token", Token("IMPORT", Empty, m.g1, Empty)) ELSE Miss

_parse_import(line) == ImportHit(_re_import(line))

MacrosIncludeHit(m) ==
  IF m.ok THEN Hit("token", Token("INCLUDE", m.g1, m.g2, Empty)) ELSE Miss

YAML_macros_parse_include(line) == MacrosIncludeHit(YAML_macros_re_include(line))

\* self._re_eval1.match(line) or self._re_eval2.match(line)
MacrosEvalHit(m1, m2) ==
  IF m1.ok THEN Hit("token", Token("EVAL", m1.g1, m1.g2, m1.g3))
  ELSE IF m2.ok THEN Hit("token", Token("EVAL", m2.g1, m2.g2, m2.g3))
  ELSE Miss

YAML_macros_parse_eval(line) == MacrosEvalHit(_re_eval1(line), _re_eval2(line))

\* self._parsers of YAML_macros, in order
YAML_macros_parsers(line) ==
  <<_parse_comment(line), _parse_exec_block(line), _parse_import(line),
    YAML_macros_parse_include(line), YAML_macros_parse_eval(line)>>

YAML_macros_parse_line(line) == FirstOf(YAML_macros_parsers(line), line)

\* _parse_line after _parse_exec_block returned None at the end of the stream.
AfterExecBlock(line) ==
  FirstOf(<<_parse_import(line), YAML_macros_parse_include(line),
            YAML_macros_parse_eval(line)>>, line)

\* _indent_tokens of YAML_macros: COMMENT, INCLUDE and BLOCK tokens are left
\* alone, and so is the first of the others.
RECURSIVE YAML_macros_indent_tokens(_, _, _)
YAML_macros_indent_tokens(toks, indent_str, first_line) ==
  IF toks = << >> THEN << >>
  ELSE IF Head(toks).line_type \in {"COMMENT", "INCLUDE", "BLOCK"}
       THEN <<Head(toks)>>
              \o YAML_macros_indent_tokens(Tail(toks), indent_str, first_line)
  ELSE IF first_line
       THEN <<Head(toks)>> \o YAML_macros_indent_tokens(Tail(toks), indent_str, FALSE)
  ELSE <<[Head(toks) EXCEPT !.prefix = indent_str \o @]>>
         \o YAML_macros_indent_tokens(Tail(toks), indent_str, FALSE)

\* if indent_str: self._indent_tokens(tokens, indent_str)
IndentIf(toks, indent_str) ==
  IF indent_str = Empty THEN toks
  ELSE YAML_macros_indent_tokens(toks, indent_str, TRUE)

\* exec(token[2], globals) of an IMPORT token: the module x exists, the module
\* nomod does not, and x has no attribute to import from it.
ModuleX == OtherValue(<<"module">>)

ImportStatement(s, g) ==
  IF s = <<"import", "x">>
  THEN [ok |-> TRUE, globals |-> [g EXCEPT !["x"] = ModuleX], exc |-> "None"]
  ELSE IF Len(s) >= 2 /\ s[1] \in {"import", "from"} /\ s[2] = "nomod"
       THEN [ok |-> FALSE, globals |-> g, exc |-> "ModuleNotFoundError"]
  ELSE IF Len(s) = 4 /\ s[1] = "from" /\ s[2] = "x" /\ s[3] = "import"
       THEN [ok |-> FALSE, globals |-> g, exc |-> "ImportError"]
  ELSE [ok |-> FALSE, globals |-> g, exc |-> "SyntaxError"]

PyImport(stmt, g) == ImportStatement(NoWhite(stmt), g)

\* _process_eval of YAML_macros after eval returned value: a str is reflowed
\* under the prefix, anything else is shown by its repr.
YAML_macros_process_eval(token, value) ==
  token.prefix
    \o (IF value.kind = "str"
        THEN Replace(value.text, <<NL>> \o Spaces(TextLen(token.prefix)))
        ELSE IF value.kind = "none" THEN <<"None">> ELSE value.text)
    \o token.postfix \o <<NL>>

\* ------------------------------------------------------------------------
\* yaml_macros: one run of yaml_macros_string.  The run uses the variables of
\* the state above: calls holds the active _process_stream calls, each with
\* its tokens, the number of tokens processed, their outputs and the prefix of
\* the include directive it expands; tokens, idx and output are not used.
\* ------------------------------------------------------------------------
MaxMacrosLen     == 3      \* lines of the top-level document
MaxMacrosFileLen == 2      \* lines of the included file "f"

\* Lines a top-level document is made of.
MacrosLines == {
  <<"k:", SP, "v", NL>>,                                     \* k: v
  <<II, "import", SP, "nomod", II, NL>>,                     \* @@import nomod@@
  <<II, "import", SP, "x", II, NL>>,                         \* @@import x@@
  <<II, "from", SP, "x", SP, "import", SP, "q", II, NL>>,    \* @@from x import q@@
  <<"-", SP, II, INC, SP, "f", II, NL>>,                     \* - @@include f@@
  <<"-", SP, II, INC, SP, "m", NL>>,                         \* - @@include m
  <<II, NL>>,                                                \* @@
  <<"x=T", NL>>,                                             \* x=T
  <<"k:", SP, II, "x", II, NL>> }                            \* k: @@x@@

\* Lines the included file "f" is made of; the file "m" does not exist.
MacrosFileLines == {
  <<"k:", SP, "v">>,                                         \* k: v   (no line break)
  <<"#", "c", NL>>,                                          \* #c
  <<"k:", SP, II, "x", NL>>,                                 \* k: @@x
  <<II, INC, SP, "m", II, NL>> }                             \* @@include m@@

MacrosFrame(file, prefix) ==
  [file |-> file, tokens |-> << >>, idx |-> 0, output |-> << >>,
   prefix |-> prefix, parsing |-> TRUE]

InitMacros ==
  /\ yaml_str \in {c \in BSeq(MacrosLines, MaxMacrosLen) : WellFormedText(c)}
  /\ \E c \in {c \in BSeq(MacrosFileLines, MaxMacrosFileLen) : WellFormedText(c)} :
       /\ IF Mentions(yaml_str, "f") THEN TRUE ELSE c = << >>
       /\ files = [n \in {"f"} |-> c]
  /\ reformat \in BOOLEAN
  /\ pc = "load"
  /\ streams = << >>
  /\ calls = << >>
  /\ grab = NoGrab
  /\ tokens = << >>
  /\ idx = 0
  /\ output = << >>
  /\ macro_globals = [n \in Names |-> Unbound]
  /\ lines = Empty
  /\ last_error = "None"
  /\ result = [text |-> Empty, error |-> "None"]
  /\ events = << >>
  /\ args = NoArgs
  /\ process = NotStarted

\* The _process_stream call that is running.
Frame == calls[Len(calls)]

\* The list comprehension over the stream (macros.py line 80) is running.
Parsing == pc = "run" /\ Frame.parsing

\* The list comprehension over the tokens (macros.py line 85) is running.
Processing == pc = "run" /\ ~Frame.parsing /\ Frame.idx < Len(Frame.tokens)

FrameToken == Frame.tokens[Frame.idx + 1]

FrameAppend(t) == calls' = [calls EXCEPT ![Len(calls)].tokens = Append(@, t)]

\* _process_line returned text for the current token.
Returned(text) ==
  calls' = [calls EXCEPT ![Len(calls)].output = Append(@, text),
                         ![Len(calls)].idx = @ + 1]

\* An exception nothing catches, raised for token idx + 1 of the running
\* call: it leaves yaml_macros_string.
Propagate(exc) ==
  /\ pc' = "raised"
  /\ events' = Append(events, Event("raise", Frame.file, Frame.idx + 1, exc))

\* YAML_macros(stream) and load() enter _process_stream().
MacrosLoad ==
  /\ pc = "load"
  /\ pc' = "run"
  /\ streams' = <<[file |-> TopName, pos |-> 0]>>
  /\ calls' = <<MacrosFrame(TopName, Empty)>>
  /\ UNCHANGED <<input, process, grab, tokens, idx, output, macro_globals, lines,
                 last_error, result, events>>

\* A line that one parser turns into a token at once.
MacrosParseLine ==
  /\ Parsing /\ ~grab.on /\ HasLine
  /\ \E r \in {YAML_macros_parse_line(CurLine)} :
         /\ r.act = "token"
         /\ ReadLine
         /\ FrameAppend(r.token)
         /\ events' = Append(events,
                        Event("read", Top.file, Top.pos + 1, r.token.line_type))
  /\ UNCHANGED <<input, process, pc, grab, tokens, idx, output, macro_globals, lines,
                 last_error, result>>

\* _parse_exec_block matched the start of a block: its loop starts.
MacrosBlockStart ==
  /\ Parsing /\ ~grab.on /\ HasLine
  /\ \E r \in {YAML_macros_parse_line(CurLine)} :
         /\ r.act = "grab"
         /\ ReadLine
         /\ grab' = [on |-> TRUE, capture_type |-> "BLOCK",
                     return_text |-> r.token.prefix,
                     block_lines |-> r.token.match,
                     line |-> CurLine, pos |-> Top.pos + 1]
         /\ events' = Append(events,
                        Event("read", Top.file, Top.pos + 1, "OPEN_BLOCK"))
  /\ UNCHANGED <<input, process, pc, calls, tokens, idx, output, macro_globals, lines,
                 last_error, result>>

\* The loop of _parse_exec_block reads a line that is not the end line.
MacrosBlockBody ==
  /\ Parsing /\ grab.on /\ HasLine
  /\ ~_re_exec_block_end(CurLine).ok
  /\ ReadLine
  /\ grab' = [grab EXCEPT !.block_lines = @ \o CurLine]
  /\ events' = Append(events, Event("read", Top.file, Top.pos + 1, "BODY"))
  /\ UNCHANGED <<input, process, pc, calls, tokens, idx, output, macro_globals, lines,
                 last_error, result>>

\* The loop of _parse_exec_block reads the end line and returns the token.
MacrosBlockEnd ==
  /\ Parsing /\ grab.on /\ HasLine
  /\ _re_exec_block_end(CurLine).ok
  /\ ReadLine
  /\ FrameAppend(Token("BLOCK", grab.return_text, grab.block_lines, Empty))
  /\ grab' = NoGrab
  /\ events' = Append(events, Event("read", Top.file, Top.pos + 1, "CLOSE"))
  /\ UNCHANGED <<input, process, pc, tokens, idx, output, macro_globals, lines,
                 last_error, result>>

\* The stream ends inside the loop: _parse_exec_block returns None and
\* _parse_line goes on with the parsers after it.
MacrosBlockExhausted ==
  /\ Parsing /\ grab.on /\ ~HasLine
  /\ FrameAppend(AfterExecBlock(grab.line).token)
  /\ grab' = NoGrab
  /\ events' = Append(events, Event("unterminated", Top.file, grab.pos, "BLOCK"))
  /\ UNCHANGED <<input, process, pc, streams, tokens, idx, output, macro_globals, lines,
                 last_error, result>>

\* The stream is exhausted: the tokens are indented and processing starts.
MacrosEndParse ==
  /\ Parsing /\ ~grab.on /\ ~HasLine
  /\ calls' = [calls EXCEPT
                 ![Len(calls)].tokens = IndentIf(@, Spaces(TextLen(Frame.prefix))),
                 ![Len(calls)].parsing = FALSE]
  /\ UNCHANGED <<input, process, pc, streams, grab, tokens, idx, output, macro_globals,
                 lines, last_error, result, events>>

\* REGULAR: prefix and line.  COMMENT: the line.
MacrosEmit ==
  /\ Processing
  /\ FrameToken.line_type \in {"REGULAR", "COMMENT"}
  /\ Returned(IF FrameToken.line_type = "REGULAR"
              THEN FrameToken.prefix \o FrameToken.match
              ELSE FrameToken.match)
  /\ UNCHANGED <<input, process, pc, streams, grab, tokens, idx, output, macro_globals,
                 lines, last_error, result, events>>

\* BLOCK: the block runs in the shared globals; only the prefix is output.
MacrosExecBlock ==
  /\ Processing
  /\ FrameToken.line_type = "BLOCK"
  /\ \E r \in {PyExec(FrameToken.match, macro_globals)} :
         /\ r.ok
         /\ macro_globals' = r.globals
  /\ Returned(FrameToken.prefix)
  /\ events' = Append(events, Event("exec", Frame.file, Frame.idx + 1, "ok"))
  /\ UNCHANGED <<input, process, pc, streams, grab, tokens, idx, output, lines,
                 last_error, result>>

\* BLOCK: exec raises, and nothing catches it.
MacrosExecRaise ==
  /\ Processing
  /\ FrameToken.line_type = "BLOCK"
  /\ \E r \in {PyExec(FrameToken.match, macro_globals)} :
         /\ ~r.ok
         /\ Propagate(r.exc)
  /\ UNCHANGED <<input, process, streams, calls, grab, tokens, idx, output,
                 macro_globals, lines, last_error, result>>

\* EVAL: the expression is evaluated in the shared globals.
MacrosEval ==
  /\ Processing
  /\ FrameToken.line_type = "EVAL"
  /\ \E r \in {PyEval(FrameToken.match, macro_globals)} :
         /\ r.ok
         /\ Returned(YAML_macros_process_eval(FrameToken, r.value))
         /\ events' = Append(events,
                        EvalEvent(Frame.file, Frame.idx + 1, r.value, Empty))
  /\ UNCHANGED <<input, process, pc, streams, grab, tokens, idx, output, macro_globals,
                 lines, last_error, result>>

\* EVAL: eval raises, and nothing catches it.
MacrosEvalRaise ==
  /\ Processing
  /\ FrameToken.line_type = "EVAL"
  /\ \E r \in {PyEval(FrameToken.match, macro_globals)} :
         /\ ~r.ok
         /\ Propagate(r.exc)
  /\ UNCHANGED <<input, process, streams, calls, grab, tokens, idx, output,
                 macro_globals, lines, last_error, result>>

\* IMPORT: the statement runs in the shared globals and outputs nothing.
MacrosImport ==
  /\ Processing
  /\ FrameToken.line_type = "IMPORT"
  /\ \E r \in {PyImport(FrameToken.match, macro_globals)} :
         /\ r.ok
         /\ macro_globals' = r.globals
  /\ Returned(Empty)
  /\ events' = Append(events, Event("import", Frame.file, Frame.idx + 1, "ok"))
  /\ UNCHANGED <<input, process, pc, streams, grab, tokens, idx, output, lines,
                 last_error, result>>

\* IMPORT: except ModuleNotFoundError records a message in last_error; the
\* token outputs nothing and the next token is processed.
MacrosImportNotFound ==
  /\ Processing
  /\ FrameToken.line_type = "IMPORT"
  /\ \E r \in {PyImport(FrameToken.match, macro_globals)} :
         ~r.ok /\ r.exc = "ModuleNotFoundError"
  /\ last_error' = "Error: import failed, not found."
  /\ Returned(Empty)
  /\ events' = Append(events,
                 Event("importfail", Frame.file, Frame.idx + 1, "ModuleNotFoundError"))
  /\ UNCHANGED <<input, process, pc, streams, grab, tokens, idx, output, macro_globals,
                 lines, result>>

\* IMPORT: any other exception is not caught.
MacrosImportRaise ==
  /\ Processing
  /\ FrameToken.line_type = "IMPORT"
  /\ \E r \in {PyImport(FrameToken.match, macro_globals)} :
         /\ ~r.ok /\ r.exc # "ModuleNotFoundError"
         /\ Propagate(r.exc)
  /\ UNCHANGED <<input, process, streams, calls, grab, tokens, idx, output,
                 macro_globals, lines, last_error, result>>

\* INCLUDE: _process_include opens the file, appends the stream and enters
\* _process_stream on it.
MacrosIncludeOpen ==
  /\ Processing
  /\ FrameToken.line_type = "INCLUDE"
  /\ \E name \in {FileName(FrameToken.match)} :
         /\ name \in DOMAIN files
         /\ streams' = Append(streams, [file |-> name, pos |-> 0])
         /\ calls' = Append(calls, MacrosFrame(name, FrameToken.prefix))
         /\ events' = Append(events, Event("open", name, 0, "INCLUDE"))
  /\ UNCHANGED <<input, process, pc, grab, tokens, idx, output, macro_globals, lines,
                 last_error, result>>

\* INCLUDE: except FileNotFoundError records a message in last_error; the
\* token outputs nothing and the next token is processed.
MacrosIncludeNotFound ==
  /\ Processing
  /\ FrameToken.line_type = "INCLUDE"
  /\ \E name \in {FileName(FrameToken.match)} :
         /\ name \notin DOMAIN files
         /\ events' = Append(events, Event("openfail", name, 0, "INCLUDE"))
  /\ last_error' = "Error: include file not found."
  /\ Returned(Empty)
  /\ UNCHANGED <<input, process, pc, streams, grab, tokens, idx, output, macro_globals,
                 lines, result>>

\* The tokens of an included stream are processed: _process_stream returns
\* their joined output and _process_include returns it after the prefix and
\* before a line break.  The stream stays on self._streams.
MacrosEndInclude ==
  /\ pc = "run" /\ ~Frame.parsing /\ Frame.idx = Len(Frame.tokens)
  /\ Len(calls) > 1
  /\ \E n \in {Len(calls)} :
       calls' = [SubSeq(calls, 1, n - 1) EXCEPT
                   ![n - 1].output =
                      Append(@, Frame.prefix \o Join(Frame.output) \o <<NL>>),
                   ![n - 1].idx = @ + 1]
  /\ events' = Append(events, Event("close", Frame.file, 0, "INCLUDE"))
  /\ UNCHANGED <<input, process, pc, streams, grab, tokens, idx, output, macro_globals,
                 lines, last_error, result>>

\* The tokens of the top-level stream are processed: load() stores the text.
MacrosEndTop ==
  /\ pc = "run" /\ ~Frame.parsing /\ Frame.idx = Len(Frame.tokens)
  /\ Len(calls) = 1
  /\ lines' = Join(Frame.output)
  /\ calls' = << >>
  /\ pc' = "return"
  /\ UNCHANGED <<input, process, streams, grab, tokens, idx, output, macro_globals,
                 last_error, result, events>>

\* _yaml_macros returns the loaded text when validation is not asked for or
\* last_error is set.
MacrosReturnUnvalidated ==
  /\ pc = "return"
  /\ ~(last_error = "None" /\ reformat)
  /\ result' = [text |-> lines, error |-> last_error]
  /\ pc' = "done"
  /\ UNCHANGED <<input, process, streams, calls, grab, tokens, idx, output,
                 macro_globals, lines, last_error, events>>

\* dump(): the text parses and is serialized again.
MacrosDumpOk ==
  /\ pc = "return"
  /\ last_error = "None" /\ reformat
  /\ SafeLoad(lines) = "ok"
  /\ result' = [text |-> Canonical(lines), error |-> "None"]
  /\ pc' = "done"
  /\ UNCHANGED <<input, process, streams, calls, grab, tokens, idx, output,
                 macro_globals, lines, last_error, events>>

\* dump(): yaml.YAMLError; last_error gets a message only when the exception
\* has a problem_mark, and "" is returned in both cases.
MacrosDumpParseFailure ==
  /\ pc = "return"
  /\ last_error = "None" /\ reformat
  /\ \E exc \in {SafeLoad(lines)} :
       /\ exc # "ok"
       /\ last_error' = IF exc = "marked" THEN "YAML parse error" ELSE last_error
  /\ result' = [text |-> Empty, error |-> last_error']
  /\ pc' = "done"
  /\ UNCHANGED <<input, process, streams, calls, grab, tokens, idx, output,
                 macro_globals, lines, events>>

NextMacros ==
  \/ MacrosLoad
  \/ MacrosParseLine
  \/ MacrosBlockStart
  \/ MacrosBlockBody
  \/ MacrosBlockEnd
  \/ MacrosBlockExhausted
  \/ MacrosEndParse
  \/ MacrosEmit
  \/ MacrosExecBlock
  \/ MacrosExecRaise
  \/ MacrosEval
  \/ MacrosEvalRaise
  \/ MacrosImport
  \/ MacrosImportNotFound
  \/ MacrosImportRaise
  \/ MacrosIncludeOpen
  \/ MacrosIncludeNotFound
  \/ MacrosEndInclude
  \/ MacrosEndTop
  \/ MacrosReturnUnvalidated
  \/ MacrosDumpOk
  \/ MacrosDumpParseFailure

SpecMacros == InitMacros /\ [][NextMacros]_vars

\* C11: in yaml_macros, an import of a module that does not exist and an
\* include of a file that does not exist leave yaml_macros_string as an
\* exception: once either has happened the run is over, no further token is
\* processed and no text is returned.
C11_DirectiveFailurePropagates ==
  (\E i \in EventIdx : events[i].ev \in {"importfail", "openfail"})
    => pc = "raised"

\* The token at which event i, a "raise", happened.
RaisedAt(i, j) ==
  /\ tokens[j].line_type \in {"EXEC", "EVAL"}
  /\ tokens[j].src.file = events[i].file
  /\ tokens[j].src.pos = events[i].pos

\* C12: when exec or eval raises at a token, the run stops at that token:
\* nothing is executed or evaluated after it, the text of the tokens before it
\* is dropped, and the run returns the empty text with the failure as error,
\* without validation, whatever reformat is.
C12_ExecutionFailureAborts ==
  \A i \in EventIdx :
    events[i].ev = "raise"
      => /\ i = Len(events)
         /\ idx < Len(tokens) /\ RaisedAt(i, idx + 1)
         /\ Len(output) = idx
         /\ pc \in {"return", "done"}
         /\ lines = Empty
         /\ last_error = events[i].how
         /\ pc = "done" => result = [text |-> Empty, error |-> events[i].how]

\* A finished run with validation asked for, in which tokens before the
\* failing one had produced text and a token after it was to be evaluated.
C12_Witness ==
  /\ pc = "done" /\ reformat
  /\ \E i \in EventIdx : events[i].ev = "raise"
  /\ Join(output) # Empty
  /\ \E j \in (idx + 2)..Len(tokens) : tokens[j].line_type \in {"EXEC", "EVAL"}

\* ------------------------------------------------------------------------
\* The command line (src/pyaml_processor/__main__.py): main() runs
\* process_yaml(), writes the text when there is no error, and exits.
\* reformat is args.check.  Opening args.output for writing succeeds.
\* ------------------------------------------------------------------------
InitMain ==
  /\ yaml_str \in {c \in BSeq(TopLines, MaxTopLen) : WellFormedText(c)}
  /\ \E c \in {c \in BSeq(FileLines, MaxFileLen) : WellFormedText(c)} :
       /\ IF Mentions(yaml_str, "f") THEN TRUE ELSE c = << >>
       /\ files = [n \in {"f"} |-> c]
  /\ reformat \in BOOLEAN
  /\ \E a \in [cli : {TRUE}, file_ok : BOOLEAN, output : {"None", "out"}] :
       /\ IF a.file_ok THEN TRUE ELSE yaml_str = << >>
       /\ args = a
  /\ pc = "main"
  /\ streams = << >>
  /\ calls = << >>
  /\ grab = NoGrab
  /\ tokens = << >>
  /\ idx = 0
  /\ output = << >>
  /\ macro_globals = [n \in Names |-> Unbound]
  /\ lines = Empty
  /\ last_error = "None"
  /\ result = [text |-> Empty, error |-> "None"]
  /\ events = << >>
  /\ process = NotStarted

\* process_yaml: pyaml_file opens args.file[0] and calls _pyaml.
MainProcessYaml ==
  /\ pc = "main" /\ args.file_ok
  /\ pc' = "load"
  /\ UNCHANGED <<input, process, streams, calls, grab, tokens, idx, output,
                 macro_globals, lines, last_error, result, events>>

\* process_yaml: open() raises in pyaml_file; the except clause returns the
\* empty text and the exception.
MainOpenFailure ==
  /\ pc = "main" /\ ~args.file_ok
  /\ result' = [text |-> Empty, error |-> "FileNotFoundError"]
  /\ pc' = "done"
  /\ UNCHANGED <<input, process, streams, calls, grab, tokens, idx, output,
                 macro_globals, lines, last_error, events>>

\* main: if not error: write_output(args, lines)
MainWriteOutput ==
  /\ pc = "done" /\ args.cli
  /\ result.error = "None"
  /\ process' = [process EXCEPT !.written =
                   Append(@, [to |-> IF args.output # "None" THEN args.output
                                     ELSE "stdout",
                              text |-> result.text])]
  /\ pc' = "exit"
  /\ UNCHANGED <<input, streams, calls, grab, tokens, idx, output,
                 macro_globals, lines, last_error, result, events>>

\* main: exit(-1 if error else 0)
MainExit ==
  /\ args.cli
  /\ pc = "exit" \/ (pc = "done" /\ result.error # "None")
  /\ process' = [process EXCEPT !.exit_code =
                   IF result.error # "None" THEN 0 - 1 ELSE 0]
  /\ pc' = "exited"
  /\ UNCHANGED <<input, streams, calls, grab, tokens, idx, output,
                 macro_globals, lines, last_error, result, events>>

NextMain ==
  \/ MainProcessYaml
  \/ MainOpenFailure
  \/ Next
  \/ MainWriteOutput
  \/ MainExit

SpecMain == InitMain /\ [][NextMain]_vars

\* The run met one of the errors of the command: the source file could not be
\* opened, a directive failed (a file to include was not found, exec or eval
\* raised), or the text did not parse in check mode.
ProcessingFailed ==
  \/ ~args.file_ok
  \/ Fatal
  \/ reformat /\ SafeLoad(lines) # "ok"

WrittenText(to, text) == <<[to |-> to, text |-> text]>>

\* C13: the command exits with code 0 exactly when processing succeeded, and
\* then it has written the result once, to args.output if given and to
\* standard output otherwise; after any error it has written nothing and
\* exits with a code that is not 0.
C13_ExitCodeReflectsErrors ==
  pc = "exited" =>
    IF ProcessingFailed
    THEN process.written = << >> /\ process.exit_code # 0
    ELSE /\ process.exit_code = 0
         /\ process.written =
              WrittenText(IF args.output # "None" THEN args.output ELSE "stdout",
                          result.text)

\* Every line of the top-level document is a REGULAR or a COMMENT line.
DirectiveFree ==
  \A k \in 1..Len(yaml_str) : FirstRule(yaml_str[k]) \in {"REGULAR", "COMMENT"}

\* C14: without validation, a document with no directive is returned as it
\* is: its lines unchanged, in order, none removed, and no error.
C14_DirectiveFreeRoundTrip ==
  (pc = "done" /\ ~reformat /\ DirectiveFree)
    => result = [text |-> Join(yaml_str), error |-> "None"]

\* What the first pass (reading) and the second pass (executing) record.
ReadEvent(e) == e.ev \in {"read", "open", "openfail", "close", "unterminated"}
ExecEvent(e) == e.ev \in {"exec", "eval", "raise"}

\* Event i read a one-line exec or eval directive.
ReadDirective(i) == events[i].ev = "read" /\ events[i].how \in {"EXEC", "EVAL"}

\* The directive read by event i was executed by an event between i and j.
ExecutedBetween(i, j) ==
  \E k \in (i + 1)..(j - 1) :
    /\ ExecEvent(events[k])
    /\ events[k].file = events[i].file /\ events[k].pos = events[i].pos

\* The "open" event of the include that the "close" event c ends.
OpenOf(c) ==
  Max0({i \in 1..c : events[i].ev = "open" /\ events[i].file = events[c].file})

SrcPath(t) ==
  [k \in 1..(Len(t.src.via) + 1) |->
     IF k <= Len(t.src.via) THEN t.src.via[k].pos ELSE t.src.pos]

RECURSIVE LexLess(_, _)
LexLess(a, b) ==
  IF a = << >> \/ b = << >> THEN FALSE
  ELSE IF Head(a) # Head(b) THEN Head(a) < Head(b)
  ELSE LexLess(Tail(a), Tail(b))

\* File and line of the directives executed so far, in the order of execution.
Executed ==
  [k \in 1..Len(SelectSeq(events, ExecEvent)) |->
     <<SelectSeq(events, ExecEvent)[k].file, SelectSeq(events, ExecEvent)[k].pos>>]

IsDirective(t) == t.line_type \in {"EXEC", "EVAL"}

\* File and line of the EXEC and EVAL tokens among the first n tokens.
DirectivesUpTo(n) ==
  [k \in 1..Len(SelectSeq(SubSeq(tokens, 1, n), IsDirective)) |->
     <<SelectSeq(SubSeq(tokens, 1, n), IsDirective)[k].src.file,
       SelectSeq(SubSeq(tokens, 1, n), IsDirective)[k].src.pos>>]

RECURSIVE Nesting(_)
Nesting(n) ==
  IF n = 0 THEN <<TopName>>
  ELSE IF events[n].ev = "open" THEN Append(Nesting(n - 1), events[n].file)
  ELSE IF events[n].ev = "close"
       THEN SubSeq(Nesting(n - 1), 1, Len(Nesting(n - 1)) - 1)
  ELSE Nesting(n - 1)

StreamFiles == [k \in 1..Len(streams) |-> streams[k].file]

\* C16: in a run that does not fail, self._streams follows the include
\* nesting: while the streams are read it holds the files being read,
\* outermost first, every line is read from its top, and it is empty once
\* load has read everything; an included file is popped and closed before the
\* enclosing stream is read again; and a block takes its lines from the
\* stream of its open marker only, so that after a block left open at the end
\* of an included file the enclosing stream is read outside any block.
C16_StreamStackBalanced ==
  ~Fatal =>
    /\ Len(streams) = Len(calls)
    /\ pc = "parse" => StreamFiles = Nesting(Len(events))
    /\ pc \in {"process", "return", "done"} => streams = << >>
    /\ pc \in {"process", "return", "done"} => Nesting(Len(events)) = <<TopName>>
    /\ \A j \in EventIdx :
         events[j].ev \in {"read", "close", "unterminated"}
           => /\ events[j].depth = Len(Nesting(j - 1))
              /\ events[j].file = Nesting(j - 1)[Len(Nesting(j - 1))]
    /\ \A j \in EventIdx :
         (events[j].ev = "read" /\ events[j].how \in {"BODY", "CLOSE"})
           => /\ events[j - 1].ev = "read"
              /\ events[j - 1].how \in {"OPEN_EXEC", "OPEN_EVAL", "BODY"}
              /\ events[j - 1].file = events[j].file
              /\ events[j - 1].depth = events[j].depth
              /\ events[j - 1].pos + 1 = events[j].pos
    /\ \A j \in EventIdx :
         (events[j].ev = "unterminated" /\ events[j].depth > 1
            /\ j + 1 < Len(events))
           => /\ events[j + 1].ev = "close"
              /\ events[j + 2].ev = "read" => ReadOutsideBlock(j + 2)

\* A finished run without failure in which a block was left open at the end
\* of the included file and the enclosing file had a line after the include.
C16_Witness ==
  /\ pc = "done" /\ ~Fatal
  /\ \E j, k \in EventIdx :
       /\ j < k
       /\ events[j].ev = "unterminated" /\ events[j].file = "f"
       /\ events[k].ev = "read" /\ events[k].file = TopName

====
